---- MODULE Spec2Model ----
(***************************************************************************)
(* Documentation Hub MCP server: the query classification pipeline         *)
(* determineDomain -> extractTopics -> constructSpecificUrl of             *)
(* src/src/index.ts, modelled on JavaScript strings (TLC strings; a        *)
(* character is a string of length 1).                                     *)
(***************************************************************************)
EXTENDS Integers, Sequences, FiniteSets, TLC

VARIABLES pc, call, query, domain, topics, ret,
          specifiedDomain, specificUrl, fetched, settled

vars == <<pc, call, query, domain, topics, ret,
          specifiedDomain, specificUrl, fetched, settled>>

\* the variables only the fetch-documentation handler uses: its arguments and
\* locals, the URLs it has called fetch with, and how those fetches settled
handlerVars == <<specifiedDomain, specificUrl, fetched, settled>>

(***************************************************************************)
(* Bounds of the explored inputs.                                          *)
(***************************************************************************)
\* a generated query is the concatenation of at most MaxFrags fragments
MaxFrags == 2
\* a generated topic list has at most MaxTopics entries
MaxTopics == 2
\* a generated query of a tool call is the concatenation of at most MaxToolFrags fragments
MaxToolFrags == 1
\* the number of fetch-documentation calls in flight together
NumCalls == 2

(***************************************************************************)
(* JavaScript values and string primitives.                                *)
(***************************************************************************)
\* the JavaScript null returned by constructSpecificUrl; never a URL
null == "null"

\* the JavaScript undefined: an omitted argument, a missing property
undefined == "undefined"

CharAt(s, i) == SubSeq(s, i, i)

UpperCaseLetters == "ABCDEFGHIJKLMNOPQRSTUVWXYZ"
LowerCaseLetters == "abcdefghijklmnopqrstuvwxyz"
Digits == "0123456789"

CharsOf(s) == { CharAt(s, i) : i \in 1..Len(s) }

\* String.prototype.toLowerCase on one character (ASCII letters)
LowerChar(c) ==
    IF \E i \in 1..Len(UpperCaseLetters) : CharAt(UpperCaseLetters, i) = c
    THEN CharAt(LowerCaseLetters,
                CHOOSE i \in 1..Len(UpperCaseLetters) : CharAt(UpperCaseLetters, i) = c)
    ELSE c

RECURSIVE toLowerCase(_)
toLowerCase(s) ==
    IF s = "" THEN "" ELSE LowerChar(CharAt(s, 1)) \o toLowerCase(Tail(s))

\* the literal lit stands in s at position i
LiteralAt(s, i, lit) ==
    i + Len(lit) - 1 <= Len(s) /\ SubSeq(s, i, i + Len(lit) - 1) = lit

\* String.prototype.includes: k occurs in s as a contiguous substring
Includes(s, k) == \E i \in 1..Len(s) : LiteralAt(s, i, k)

(***************************************************************************)
(* determineDomain (src/src/index.ts:446-471).                             *)
(***************************************************************************)
\* Object.entries order of the domainKeywords literal
domainKeywords ==
    << [domain |-> "react-docs",
        keywords |-> <<"react", "component", "jsx", "hook", "props", "state">>],
       [domain |-> "node-docs",
        keywords |-> <<"node", "express", "npm", "package", "module", "require">>],
       [domain |-> "python-docs",
        keywords |-> <<"python", "pip", "django", "flask", "pandas", "numpy">>] >>

\* variant of the reduce that adds every occurrence of a keyword
RECURSIVE ReduceOccurrences(_, _, _)
ReduceOccurrences(queryLower, keywords, count) ==
    IF keywords = <<>> THEN count
    ELSE ReduceOccurrences(queryLower, Tail(keywords),
             count + Cardinality({ i \in 1..Len(queryLower) :
                                     LiteralAt(queryLower, i, Head(keywords)) }))

\* keywords.reduce((count, keyword) => count + (includes ? 1 : 0), 0)
RECURSIVE ReduceCount(_, _, _)
ReduceCount(queryLower, keywords, count) ==
    IF keywords = <<>> THEN count
    ELSE ReduceCount(queryLower, Tail(keywords),
                     count + (IF Includes(queryLower, Head(keywords)) THEN 1 ELSE 0))

\* variant of the first loop that searches the query as typed
ScoresCaseSensitive(q) ==
    [i \in 1..Len(domainKeywords) |->
        [domain |-> domainKeywords[i].domain,
         score  |-> ReduceCount(q, domainKeywords[i].keywords, 0)]]

\* the scores object after the first loop, in insertion order
Scores(q) ==
    [i \in 1..Len(domainKeywords) |->
        [domain |-> domainKeywords[i].domain,
         score  |-> ReduceCount(toLowerCase(q), domainKeywords[i].keywords, 0)]]

\* variant of the comparison with >= (the last of tied domains wins)
BestStepLastWins(best, entry) ==
    IF entry.score >= best.highestScore
    THEN [bestDomain |-> entry.domain, highestScore |-> entry.score]
    ELSE best

\* one iteration of the second loop: if (score > highestScore) {...}
BestStep(best, entry) ==
    IF entry.score > best.highestScore
    THEN [bestDomain |-> entry.domain, highestScore |-> entry.score]
    ELSE best

RECURSIVE BestLoop(_, _)
BestLoop(entries, best) ==
    IF entries = <<>> THEN best
    ELSE BestLoop(Tail(entries), BestStep(best, Head(entries)))

\* the defaults the second loop starts from
InitialBest == [bestDomain |-> "general", highestScore |-> 0]

\* variant of the return that asks for more than one keyword
FinalDomainAboveOne(best) ==
    IF best.highestScore > 1 THEN best.bestDomain ELSE "general"

\* variant of the return that yields null when nothing scored
FinalDomainOrNull(best) ==
    IF best.highestScore > 0 THEN best.bestDomain ELSE null

\* return highestScore > 0 ? bestDomain : "general"
FinalDomain(best) ==
    IF best.highestScore > 0 THEN best.bestDomain ELSE "general"

determineDomain(q) ==
    FinalDomain(BestLoop(Scores(q), InitialBest))

(***************************************************************************)
(* Regular expressions of extractTopics.  A pattern is a sequence of       *)
(* alternatives (a|b); an alternative is literal parts joined by \s*,      *)
(* with an optional \b before the first and after the last part.           *)
(***************************************************************************)
\* \w of a RegExp without the u flag
WordChars == CharsOf(LowerCaseLetters) \cup CharsOf(UpperCaseLetters)
             \cup CharsOf(Digits) \cup {"_"}

\* \s restricted to the ASCII white space
SpaceChars == {" ", "\t", "\n", "\r", "\f"}

IsWordAt(s, p) == p \in 1..Len(s) /\ CharAt(s, p) \in WordChars

\* \b at the gap before character p (p = Len(s) + 1 is the end of input)
WordBoundary(s, p) == IsWordAt(s, p - 1) # IsWordAt(s, p)

\* the positions just after a match of parts[1] \s* parts[2] ... begun at i
RECURSIVE PartsEnd(_, _, _)
PartsEnd(s, i, parts) ==
    IF ~LiteralAt(s, i, Head(parts)) THEN {}
    ELSE LET after == i + Len(Head(parts)) IN
         IF Len(parts) = 1 THEN {after}
         ELSE UNION { PartsEnd(s, j, Tail(parts)) :
                        j \in { j \in after..(Len(s) + 1) :
                                  \A k \in after..(j - 1) : CharAt(s, k) \in SpaceChars } }

AltMatchesAt(s, i, alt) ==
    /\ alt.pre => WordBoundary(s, i)
    /\ \E e \in PartsEnd(s, i, alt.parts) : alt.post => WordBoundary(s, e)

\* RegExp.prototype.test: some alternative matches at some position
Test(pattern, s) ==
    \E a \in 1..Len(pattern) : \E i \in 1..Len(s) : AltMatchesAt(s, i, pattern[a])

\* variant of /lit\b/ that asks for a word boundary on both sides
SubBothB(lit) == [pre |-> TRUE, parts |-> <<lit>>, post |-> TRUE]

\* /lit/ , /a\s*b/ , /lit\b/ , /\blit\b/
Sub(lit)      == [pre |-> FALSE, parts |-> <<lit>>, post |-> FALSE]
Spaced(a, b)  == [pre |-> FALSE, parts |-> <<a, b>>, post |-> FALSE]
SubB(lit)     == [pre |-> FALSE, parts |-> <<lit>>, post |-> TRUE]
Word(lit)     == [pre |-> TRUE, parts |-> <<lit>>, post |-> TRUE]

Topic(label, pattern) == [topic |-> label, pattern |-> pattern]

(***************************************************************************)
(* extractTopics (src/src/index.ts:473-542).                               *)
(***************************************************************************)
reactPatterns ==
    << Topic("useState",    <<Spaced("use", "state")>>),
       Topic("useEffect",   <<Spaced("use", "effect")>>),
       Topic("useContext",  <<Spaced("use", "context")>>),
       Topic("useReducer",  <<Spaced("use", "reducer")>>),
       Topic("useCallback", <<Spaced("use", "callback")>>),
       Topic("useMemo",     <<Spaced("use", "memo")>>),
       Topic("useRef",      <<Spaced("use", "ref")>>),
       Topic("components",  <<Sub("component")>>),
       Topic("props",       <<Sub("props")>>),
       Topic("state",       <<SubB("state")>>),
       Topic("jsx",         <<Sub("jsx")>>),
       Topic("rendering",   <<Sub("render")>>),
       Topic("events",      <<Sub("event")>>) >>

nodePatterns ==
    << Topic("fs",      <<Word("fs"), Spaced("file", "system")>>),
       Topic("http",    <<Word("http"), Word("server")>>),
       Topic("path",    <<Word("path")>>),
       Topic("buffer",  <<Word("buffer")>>),
       Topic("stream",  <<Word("stream")>>),
       Topic("events",  <<Word("events")>>),
       Topic("modules", <<Word("module"), Word("require"), Word("import")>>),
       Topic("npm",     <<Word("npm"), Word("package")>>),
       Topic("express", <<Word("express")>>),
       Topic("process", <<Word("process")>>) >>

pythonPatterns ==
    << Topic("list",     <<Word("list"), Word("lists")>>),
       Topic("dict",     <<Word("dict"), Word("dictionary"), Word("dictionaries")>>),
       Topic("tuple",    <<Word("tuple"), Word("tuples")>>),
       Topic("set",      <<Word("set"), Word("sets")>>),
       Topic("string",   <<Word("string"), Word("str")>>),
       Topic("file",     <<Word("file"), Word("open"), Word("read"), Word("write")>>),
       Topic("class",    <<Word("class"), Word("object"), Word("inheritance")>>),
       Topic("function", <<Word("function"), Word("def")>>),
       Topic("module",   <<Word("module"), Word("import")>>),
       Topic("pandas",   <<Word("pandas"), Word("pd"), Word("dataframe")>>),
       Topic("numpy",    <<Word("numpy"), Word("np"), Word("array")>>),
       Topic("django",   <<Word("django")>>),
       Topic("flask",    <<Word("flask")>>) >>

\* variant of the lookup that falls back to the first domain's patterns
topicPatternsWithDefault(d) ==
    CASE d = "node-docs"   -> nodePatterns
      [] d = "python-docs" -> pythonPatterns
      [] OTHER             -> reactPatterns

\* Object.entries(topicPatterns[domain]); no entries when the domain has none
topicPatterns(d) ==
    CASE d = "react-docs"  -> reactPatterns
      [] d = "node-docs"   -> nodePatterns
      [] d = "python-docs" -> pythonPatterns
      [] OTHER             -> <<>>

\* for (const [topic, pattern] of ...) if (pattern.test(queryLower)) push(topic)
RECURSIVE PatternLoop(_, _, _)
PatternLoop(queryLower, entries, extractedTopics) ==
    IF entries = <<>> THEN extractedTopics
    ELSE PatternLoop(queryLower, Tail(entries),
                     IF Test(Head(entries).pattern, queryLower)
                     THEN Append(extractedTopics, Head(entries).topic)
                     ELSE extractedTopics)

QuoteChars == {"\"", "'"}

\* variant of the match with a greedy (.+) between the quotes: the last closer
QuoteEndGreedy(s, i) ==
    LET closers == { j \in (i + 1)..Len(s) : CharAt(s, j) = CharAt(s, i) } IN
    IF CharAt(s, i) \in QuoteChars /\ closers # {}
    THEN LET close == CHOOSE c \in closers : \A k \in closers : c >= k IN
         IF close > i + 1 THEN close ELSE 0
    ELSE 0

\* the end of the match of "([^"]+)" or '([^']+)' begun at i, 0 when none
QuoteEnd(s, i) ==
    LET closers == { j \in (i + 1)..Len(s) : CharAt(s, j) = CharAt(s, i) } IN
    IF CharAt(s, i) \in QuoteChars /\ closers # {}
    THEN LET close == CHOOSE c \in closers : \A k \in closers : c <= k IN
         IF close > i + 1 THEN close ELSE 0
    ELSE 0

\* query.match(/"([^"]+)"|'([^']+)'/g): the matches from position i on
RECURSIVE MatchQuoted(_, _)
MatchQuoted(s, i) ==
    IF i > Len(s) THEN <<>>
    ELSE IF QuoteEnd(s, i) # 0
         THEN <<SubSeq(s, i, QuoteEnd(s, i))>> \o MatchQuoted(s, QuoteEnd(s, i) + 1)
         ELSE MatchQuoted(s, i + 1)

\* term.replace(/['"]/g, '')
RECURSIVE CleanTerm(_)
CleanTerm(term) ==
    IF term = "" THEN ""
    ELSE (IF CharAt(term, 1) \in QuoteChars THEN "" ELSE CharAt(term, 1))
         \o CleanTerm(Tail(term))

\* variant of the length test with >= 2
AtLeastTwo(cleanTerm) == Len(cleanTerm) >= 2

\* if (cleanTerm.length > 2)
LongEnough(cleanTerm) == Len(cleanTerm) > 2

\* variant of the forEach that skips a term the list already holds
RECURSIVE QuotedLoopDedup(_, _)
QuotedLoopDedup(quotedTerms, extractedTopics) ==
    IF quotedTerms = <<>> THEN extractedTopics
    ELSE QuotedLoopDedup(Tail(quotedTerms),
             IF /\ LongEnough(CleanTerm(Head(quotedTerms)))
                /\ \A i \in 1..Len(extractedTopics) :
                       extractedTopics[i] # CleanTerm(Head(quotedTerms))
             THEN Append(extractedTopics, CleanTerm(Head(quotedTerms)))
             ELSE extractedTopics)

\* quotedTerms.forEach(term => ...)
RECURSIVE QuotedLoop(_, _)
QuotedLoop(quotedTerms, extractedTopics) ==
    IF quotedTerms = <<>> THEN extractedTopics
    ELSE QuotedLoop(Tail(quotedTerms),
                    IF LongEnough(CleanTerm(Head(quotedTerms)))
                    THEN Append(extractedTopics, CleanTerm(Head(quotedTerms)))
                    ELSE extractedTopics)

extractTopics(q, d) ==
    QuotedLoop(MatchQuoted(q, 1),
               PatternLoop(toLowerCase(q), topicPatterns(d), <<>>))

(***************************************************************************)
(* constructSpecificUrl (src/src/index.ts:544-646).                        *)
(***************************************************************************)
\* Array.prototype.includes
InArray(arr, x) == \E i \in 1..Len(arr) : arr[i] = x

reactHooks ==
    <<"useState", "useEffect", "useContext", "useReducer", "useCallback",
      "useMemo", "useRef">>

\* case "react-docs"
reactUrl(mainTopic) ==
    IF InArray(reactHooks, mainTopic)
        THEN "https://react.dev/reference/react/" \o mainTopic
    ELSE IF mainTopic = "components"
        THEN "https://react.dev/learn/your-first-component"
    ELSE IF mainTopic = "props"
        THEN "https://react.dev/learn/passing-props-to-a-component"
    ELSE IF mainTopic = "state"
        THEN "https://react.dev/learn/state-a-components-memory"
    ELSE IF mainTopic = "jsx"
        THEN "https://react.dev/learn/writing-markup-with-jsx"
    ELSE IF mainTopic = "events"
        THEN "https://react.dev/learn/responding-to-events"
    ELSE IF mainTopic = "rendering"
        THEN "https://react.dev/learn/render-and-commit"
    ELSE null

\* variant of the node-docs rules without the rule for modules
nodeUrlNoModules(mainTopic) ==
    IF mainTopic = "fs" THEN "https://nodejs.org/api/fs.html"
    ELSE IF mainTopic = "http" THEN "https://nodejs.org/api/http.html"
    ELSE IF mainTopic = "path" THEN "https://nodejs.org/api/path.html"
    ELSE IF mainTopic = "buffer" THEN "https://nodejs.org/api/buffer.html"
    ELSE IF mainTopic = "stream" THEN "https://nodejs.org/api/stream.html"
    ELSE IF mainTopic = "events" THEN "https://nodejs.org/api/events.html"
    ELSE IF mainTopic = "process" THEN "https://nodejs.org/api/process.html"
    ELSE IF mainTopic = "npm" THEN "https://docs.npmjs.com/"
    ELSE IF mainTopic = "express" THEN "https://expressjs.com/en/api.html"
    ELSE null

\* case "node-docs"
nodeUrl(mainTopic) ==
    IF mainTopic = "fs" THEN "https://nodejs.org/api/fs.html"
    ELSE IF mainTopic = "http" THEN "https://nodejs.org/api/http.html"
    ELSE IF mainTopic = "path" THEN "https://nodejs.org/api/path.html"
    ELSE IF mainTopic = "buffer" THEN "https://nodejs.org/api/buffer.html"
    ELSE IF mainTopic = "stream" THEN "https://nodejs.org/api/stream.html"
    ELSE IF mainTopic = "events" THEN "https://nodejs.org/api/events.html"
    ELSE IF mainTopic = "modules" THEN "https://nodejs.org/api/modules.html"
    ELSE IF mainTopic = "process" THEN "https://nodejs.org/api/process.html"
    ELSE IF mainTopic = "npm" THEN "https://docs.npmjs.com/"
    ELSE IF mainTopic = "express" THEN "https://expressjs.com/en/api.html"
    ELSE null

pythonStdTypes == <<"list", "dict", "tuple", "set", "string">>

\* variant of the python-docs rules whose template leaves out the final s
pythonUrlNoPlural(mainTopic) ==
    IF InArray(pythonStdTypes, mainTopic)
        THEN "https://docs.python.org/3/library/stdtypes.html#" \o mainTopic
    ELSE IF mainTopic = "file"
        THEN "https://docs.python.org/3/tutorial/inputoutput.html#reading-and-writing-files"
    ELSE IF mainTopic = "class"
        THEN "https://docs.python.org/3/tutorial/classes.html"
    ELSE IF mainTopic = "function"
        THEN "https://docs.python.org/3/tutorial/controlflow.html#defining-functions"
    ELSE IF mainTopic = "module"
        THEN "https://docs.python.org/3/tutorial/modules.html"
    ELSE IF mainTopic = "pandas"
        THEN "https://pandas.pydata.org/docs/user_guide/index.html"
    ELSE IF mainTopic = "numpy"
        THEN "https://numpy.org/doc/stable/user/index.html"
    ELSE IF mainTopic = "django"
        THEN "https://docs.djangoproject.com/en/stable/"
    ELSE IF mainTopic = "flask"
        THEN "https://flask.palletsprojects.com/en/latest/"
    ELSE null

\* case "python-docs"
pythonUrl(mainTopic) ==
    IF InArray(pythonStdTypes, mainTopic)
        THEN "https://docs.python.org/3/library/stdtypes.html#" \o mainTopic \o "s"
    ELSE IF mainTopic = "file"
        THEN "https://docs.python.org/3/tutorial/inputoutput.html#reading-and-writing-files"
    ELSE IF mainTopic = "class"
        THEN "https://docs.python.org/3/tutorial/classes.html"
    ELSE IF mainTopic = "function"
        THEN "https://docs.python.org/3/tutorial/controlflow.html#defining-functions"
    ELSE IF mainTopic = "module"
        THEN "https://docs.python.org/3/tutorial/modules.html"
    ELSE IF mainTopic = "pandas"
        THEN "https://pandas.pydata.org/docs/user_guide/index.html"
    ELSE IF mainTopic = "numpy"
        THEN "https://numpy.org/doc/stable/user/index.html"
    ELSE IF mainTopic = "django"
        THEN "https://docs.djangoproject.com/en/stable/"
    ELSE IF mainTopic = "flask"
        THEN "https://flask.palletsprojects.com/en/latest/"
    ELSE null

\* variant of the early return that yields the domain's base URL
EmptyTopicsBaseUrl(d) ==
    CASE d = "react-docs"  -> "https://react.dev/reference/react"
      [] d = "node-docs"   -> "https://nodejs.org/en/docs"
      [] d = "python-docs" -> "https://docs.python.org/3/"
      [] OTHER             -> null

\* if (topics.length === 0) return null
EmptyTopicsUrl(d) == null

\* const mainTopic = topics[0]
MainTopic(ts) == ts[1]

\* variant of the switch whose default case is the react-docs rules
UrlForDefaultReact(d, mainTopic) ==
    CASE d = "node-docs"   -> nodeUrl(mainTopic)
      [] d = "python-docs" -> pythonUrl(mainTopic)
      [] OTHER             -> reactUrl(mainTopic)

\* variant of the switch without the final return (an unknown domain gives undefined)
UrlForNoFinalReturn(d, mainTopic) ==
    CASE d = "react-docs"  -> reactUrl(mainTopic)
      [] d = "node-docs"   -> nodeUrl(mainTopic)
      [] d = "python-docs" -> pythonUrl(mainTopic)
      [] OTHER             -> undefined

\* the dispatch on one topic: switch (domain) { ... } return null
UrlFor(d, mainTopic) ==
    CASE d = "react-docs"  -> reactUrl(mainTopic)
      [] d = "node-docs"   -> nodeUrl(mainTopic)
      [] d = "python-docs" -> pythonUrl(mainTopic)
      [] OTHER             -> null

\* variant of the switch that tries the later topics when the first has no rule
RECURSIVE SwitchDomainFallback(_, _)
SwitchDomainFallback(d, ts) ==
    IF ts = <<>> THEN null
    ELSE IF UrlFor(d, Head(ts)) # null THEN UrlFor(d, Head(ts))
    ELSE SwitchDomainFallback(d, Tail(ts))

\* switch (domain) with mainTopic = topics[0]
SwitchDomain(d, ts) == UrlFor(d, MainTopic(ts))

constructSpecificUrl(d, ts) ==
    IF Len(ts) = 0 THEN EmptyTopicsUrl(d) ELSE SwitchDomain(d, ts)

(***************************************************************************)
(* The tool handlers and the resources they use                            *)
(* (src/src/index.ts:432-444, 648-805).                                    *)
(***************************************************************************)
\* the values JavaScript treats as false among those a handler sees
Falsy(v) == v \in {undefined, null, ""}

\* a || b
OrElse(a, b) == IF Falsy(a) THEN b ELSE a

\* the own keys of serverConfig.capabilities.resources
ResourceNames == {"react-docs", "node-docs", "python-docs", "general"}

\* keys every object literal inherits from Object.prototype
InheritedNames ==
    {"constructor", "toString", "valueOf", "hasOwnProperty", "isPrototypeOf",
     "propertyIsEnumerable", "toLocaleString", "__proto__"}

\* resources[domain]: a registered resource, an inherited member of
\* Object.prototype (truthy, without a handler), or undefined
LookupResource(d) ==
    IF d \in ResourceNames THEN "resource"
    ELSE IF d \in InheritedNames THEN "inherited"
    ELSE undefined

\* const baseUrl = ... of the three documentation resources
baseUrl(d) ==
    CASE d = "react-docs"  -> "https://react.dev/reference/react"
      [] d = "node-docs"   -> "https://nodejs.org/en/docs"
      [] d = "python-docs" -> "https://docs.python.org/3/"

\* variant of the target that always takes the base URL
TargetUrlBaseOnly(d, url) == baseUrl(d)

\* const targetUrl = specificUrl || baseUrl
TargetUrl(d, url) == OrElse(url, baseUrl(d))

\* the outcomes of fetch(url): a response with ok, a response without, a rejection
FetchOutcomes == {"ok", "not-ok", "rejected"}

\* response.text() of the page at url
PageText(url) == "content of " \o url

FetchFailedContent == "Unable to fetch documentation content."

\* variant of fetchDocumentation whose catch block returns the text of the error
fetchDocumentationErrorText(url, outcome) ==
    IF outcome = "ok" THEN PageText(url)
    ELSE IF outcome = "not-ok" THEN "Error: Failed to fetch documentation: "
    ELSE "TypeError: fetch failed"

\* fetchDocumentation(url), given the outcome of fetch
fetchDocumentation(url, outcome) ==
    IF outcome = "ok" THEN PageText(url) ELSE FetchFailedContent

\* variant of the resource result that reports no source
ResourceResultNoSource(content, source) ==
    [content |-> content, metadata |-> [source |-> "none"]]

\* return { content, metadata: { source, timestamp } } of a resource handler
ResourceResult(content, source) ==
    [content |-> content, metadata |-> [source |-> source]]

\* variant of the general resource handler that reports the url it was given as source
GeneralNoUrlResultUrlSource ==
    ResourceResult("Please provide a specific URL for general documentation queries.",
                   null)

\* the general resource handler called without a url
GeneralNoUrlResult ==
    ResourceResult("Please provide a specific URL for general documentation queries.",
                   "none")

\* variant of the confidence that is high for every domain
ConfidenceAlwaysHigh(d) == "high"

\* confidence: domain !== "general" ? "high" : "low"
Confidence(d) == IF d # "general" THEN "high" ELSE "low"

\* the determine-domain handler
DetermineDomainResponse(q) ==
    [domain |-> determineDomain(q), confidence |-> Confidence(determineDomain(q))]

\* variant of the default with ?? (an empty domain argument is kept)
HandlerDomainNullish(specified, q) ==
    IF specified = undefined THEN determineDomain(q) ELSE specified

\* const domain = specifiedDomain || determineDomain(query)
HandlerDomain(specified, q) == OrElse(specified, determineDomain(q))

\* topics: topics.length > 0 ? topics : ["general"]
ResponseTopics(ts) == IF Len(ts) > 0 THEN ts ELSE <<"general">>

\* the return of the try block
SuccessResponse(d, ts, url, result) ==
    [domain |-> d, topics |-> ResponseTopics(ts), specificUrl |-> url,
     content |-> result.content, source |-> result.metadata.source]

\* the return of the catch block; error is String(error)
ErrorResponse(d, ts, error) ==
    [domain |-> d, topics |-> ts,
     content |-> "Error fetching documentation for this domain.", error |-> error]

\* String(new Error(`Unknown domain: ${domain}`))
UnknownDomainError(d) == "Error: Unknown domain: " \o d

\* String of the TypeError of calling the missing handler of an inherited member
NoHandlerError == "TypeError: resource.handler is not a function"

(***************************************************************************)
(* The inputs explored.                                                    *)
(***************************************************************************)
\* the queries of the test script (src/unnamed/part_000:207-230)
testQueries ==
    << "How do I use useState hook in React?",
       "What are React components and how do they work?",
       "Explain props in React",
       "How does JSX work in React?",
       "How to read files in Node.js?",
       "Creating an HTTP server in Node",
       "What is the path module in Node.js?",
       "How to use Express.js for routing?",
       "How to work with lists in Python",
       "Python dictionary examples",
       "Creating classes in Python",
       "Using pandas DataFrame in Python",
       "What's the difference between Node.js and Python?",
       "How to handle events",
       "Best practices for file handling" >>

\* the pieces generated queries are concatenated from
QueryFragments ==
    { " ", "'", "React", "node", "python", "npm package", "module", "use",
      "state", "'ab'", "'abc'", "\"xyz\"", "\"it's\"", "'path'", "'modules'" }

RECURSIVE Concats(_)
Concats(n) ==
    IF n = 0 THEN {""}
    ELSE Concats(n - 1) \cup { a \o b : a \in Concats(n - 1), b \in QueryFragments }

Queries == { testQueries[i] : i \in 1..Len(testQueries) } \cup Concats(MaxFrags)

\* the configured domains, "general", and a domain that is not configured
ConfiguredDomains == { domainKeywords[i].domain : i \in 1..Len(domainKeywords) }
DomainArgs == ConfiguredDomains \cup {"general", "rust-docs"}

\* topic labels with and without a URL rule, shared and not shared by domains
TopicPool ==
    { "useState", "useEffect", "useContext", "useReducer", "useCallback",
      "useMemo", "useRef", "components", "state", "events", "fs", "modules",
      "list", "dict", "tuple", "set", "string", "file", "abc", "Path" }

RECURSIVE TopicListsUpTo(_)
TopicListsUpTo(n) ==
    IF n = 0 THEN { <<>> }
    ELSE TopicListsUpTo(n - 1)
         \cup { Append(ts, t) : ts \in TopicListsUpTo(n - 1), t \in TopicPool }

TopicLists == TopicListsUpTo(MaxTopics)

\* the queries tool calls are made with
ToolQueries == { testQueries[i] : i \in 1..Len(testQueries) } \cup Concats(MaxToolFrags)

\* the optional domain argument: omitted, empty, registered, unknown, inherited name
SpecifiedDomains == DomainArgs \cup {undefined, "", "constructor"}

(***************************************************************************)
(* The state machine: one call, from the moment it is made (pc = "called") *)
(* to its return (pc = "returned"): a direct call of one of the three      *)
(* functions, a run of the test script's testQuery, or a call of the       *)
(* determine-domain or fetch-documentation tool.  The fetch-documentation  *)
(* handler is suspended at its fetch (pc = "fetching").  An argument the   *)
(* call does not take is "", <<>> or undefined.                            *)
(***************************************************************************)
Init ==
    /\ pc = "called"
    /\ ret = null
    /\ specificUrl = null
    /\ fetched = <<>>
    /\ settled = <<>>
    /\ \/ /\ call = "determineDomain"
          /\ query \in Queries
          /\ domain = ""
          /\ topics = <<>>
          /\ specifiedDomain = undefined
       \/ /\ call = "extractTopics"
          /\ query \in Queries
          /\ domain \in DomainArgs
          /\ topics = <<>>
          /\ specifiedDomain = undefined
       \/ /\ call = "constructSpecificUrl"
          /\ query = ""
          /\ domain \in DomainArgs
          /\ topics \in TopicLists
          /\ specifiedDomain = undefined
       \/ /\ call = "testQuery"
          /\ query \in ToolQueries
          /\ domain = ""
          /\ topics = <<>>
          /\ specifiedDomain = undefined
       \/ /\ call = "determine-domain"
          /\ query \in ToolQueries
          /\ domain = ""
          /\ topics = <<>>
          /\ specifiedDomain = undefined
       \/ /\ call = "fetch-documentation"
          /\ query \in ToolQueries
          /\ domain = ""
          /\ topics = <<>>
          /\ specifiedDomain \in SpecifiedDomains

DetermineDomainCall ==
    /\ pc = "called"
    /\ call = "determineDomain"
    /\ ret' = determineDomain(query)
    /\ pc' = "returned"
    /\ UNCHANGED <<call, query, domain, topics, handlerVars>>

ExtractTopicsCall ==
    /\ pc = "called"
    /\ call = "extractTopics"
    /\ ret' = extractTopics(query, domain)
    /\ pc' = "returned"
    /\ UNCHANGED <<call, query, domain, topics, handlerVars>>

ConstructSpecificUrlCall ==
    /\ pc = "called"
    /\ call = "constructSpecificUrl"
    /\ ret' = constructSpecificUrl(domain, topics)
    /\ pc' = "returned"
    /\ UNCHANGED <<call, query, domain, topics, handlerVars>>

\* testQuery of the test script: the three steps, each fed the previous one's output
TestQueryCall ==
    /\ pc = "called"
    /\ call = "testQuery"
    /\ domain' = determineDomain(query)
    /\ topics' = extractTopics(query, domain')
    /\ ret' = constructSpecificUrl(domain', topics')
    /\ pc' = "returned"
    /\ UNCHANGED <<call, query, handlerVars>>

\* the determine-domain tool
DetermineDomainTool ==
    /\ pc = "called"
    /\ call = "determine-domain"
    /\ ret' = DetermineDomainResponse(query)
    /\ pc' = "returned"
    /\ UNCHANGED <<call, query, domain, topics, handlerVars>>

\* the fetch-documentation handler up to its first suspension or its return
FetchDocumentationStart ==
    /\ pc = "called"
    /\ call = "fetch-documentation"
    /\ domain' = HandlerDomain(specifiedDomain, query)
    /\ topics' = extractTopics(query, domain')
    /\ specificUrl' = constructSpecificUrl(domain', topics')
    /\ \/ \* if (!resources[domain]) throw new Error(...), caught below
          /\ LookupResource(domain') = undefined
          /\ ret' = ErrorResponse(domain', topics', UnknownDomainError(domain'))
          /\ pc' = "returned"
          /\ UNCHANGED fetched
       \/ \* resource.handler is undefined: the call throws a TypeError, caught below
          /\ LookupResource(domain') = "inherited"
          /\ ret' = ErrorResponse(domain', topics', NoHandlerError)
          /\ pc' = "returned"
          /\ UNCHANGED fetched
       \/ \* the general resource without a url answers without fetching
          /\ LookupResource(domain') = "resource"
          /\ domain' = "general"
          /\ Falsy(specificUrl')
          /\ ret' = SuccessResponse(domain', topics', specificUrl', GeneralNoUrlResult)
          /\ pc' = "returned"
          /\ UNCHANGED fetched
       \/ \* a documentation resource fetches its target URL
          /\ LookupResource(domain') = "resource"
          /\ domain' # "general"
          /\ fetched' = Append(fetched, TargetUrl(domain', specificUrl'))
          /\ pc' = "fetching"
          /\ UNCHANGED ret
    /\ UNCHANGED <<call, query, specifiedDomain, settled>>

\* the fetch settles; fetchDocumentation, the resource handler and the tool handler return
FetchDocumentationSettle ==
    /\ pc = "fetching"
    /\ call = "fetch-documentation"
    /\ \E outcome \in FetchOutcomes :
          /\ settled' = Append(settled, outcome)
          /\ ret' = SuccessResponse(domain, topics, specificUrl,
                       ResourceResult(fetchDocumentation(fetched[Len(fetched)], outcome),
                                      fetched[Len(fetched)]))
    /\ pc' = "returned"
    /\ UNCHANGED <<call, query, domain, topics, specifiedDomain, specificUrl, fetched>>

Next ==
    \/ DetermineDomainCall
    \/ ExtractTopicsCall
    \/ ConstructSpecificUrlCall
    \/ TestQueryCall
    \/ DetermineDomainTool
    \/ FetchDocumentationStart
    \/ FetchDocumentationSettle

Spec == Init /\ [][Next]_vars

(***************************************************************************)
(* Concurrent fetch-documentation calls.  The handler is an async function *)
(* (src/src/index.ts:767-801): a call runs without interruption up to its  *)
(* await and after it, and other calls run while it is suspended.  Here    *)
(* every variable holds one value per call: pc[i], query[i], ret[i], ...   *)
(***************************************************************************)
Calls == 1..NumCalls

\* the arguments of the concurrent calls: queries of different domains, the
\* domain omitted, supplied and unknown
ConcQueries == { "state", "module" }
ConcDomains == { undefined, "python-docs", "rust-docs" }

\* variant in which domain, topics and specificUrl are variables all calls share
SharedActivation(i) == 1

\* the activation of call i that holds its const domain, topics and specificUrl:
\* they are declared in the handler's body, so every call has its own
Activation(i) == i

\* the handler from its try to its first suspension or its return: whether it
\* returns or awaits, the response if it returns, and the fetch it issues
HandlerStep(d, ts, url) ==
    IF LookupResource(d) = undefined
        THEN [pc |-> "returned", fetch |-> <<>>,
              ret |-> ErrorResponse(d, ts, UnknownDomainError(d))]
    ELSE IF LookupResource(d) = "inherited"
        THEN [pc |-> "returned", fetch |-> <<>>,
              ret |-> ErrorResponse(d, ts, NoHandlerError)]
    ELSE IF d = "general" /\ Falsy(url)
        THEN [pc |-> "returned", fetch |-> <<>>,
              ret |-> SuccessResponse(d, ts, url, GeneralNoUrlResult)]
    ELSE [pc |-> "fetching", fetch |-> <<TargetUrl(d, url)>>, ret |-> null]

ConcInit ==
    /\ pc = [i \in Calls |-> "called"]
    /\ call = [i \in Calls |-> "fetch-documentation"]
    /\ query \in [Calls -> ConcQueries]
    /\ specifiedDomain \in [Calls -> ConcDomains]
    /\ domain = [i \in Calls |-> ""]
    /\ topics = [i \in Calls |-> <<>>]
    /\ specificUrl = [i \in Calls |-> null]
    /\ ret = [i \in Calls |-> null]
    /\ fetched = [i \in Calls |-> <<>>]
    /\ settled = [i \in Calls |-> <<>>]

\* call i runs from its start to its first suspension or its return
ConcStart(i) ==
    /\ pc[i] = "called"
    /\ LET d    == HandlerDomain(specifiedDomain[i], query[i])
           ts   == extractTopics(query[i], d)
           url  == constructSpecificUrl(d, ts)
           step == HandlerStep(d, ts, url)
       IN  /\ domain' = [domain EXCEPT ![Activation(i)] = d]
           /\ topics' = [topics EXCEPT ![Activation(i)] = ts]
           /\ specificUrl' = [specificUrl EXCEPT ![Activation(i)] = url]
           /\ fetched' = [fetched EXCEPT ![i] = step.fetch]
           /\ ret' = [ret EXCEPT ![i] = step.ret]
           /\ pc' = [pc EXCEPT ![i] = step.pc]
    /\ UNCHANGED <<call, query, specifiedDomain, settled>>

\* the fetch of call i settles and the call returns
ConcSettle(i) ==
    /\ pc[i] = "fetching"
    /\ \E outcome \in FetchOutcomes :
          /\ settled' = [settled EXCEPT ![i] = Append(@, outcome)]
          /\ ret' = [ret EXCEPT ![i] =
                SuccessResponse(domain[Activation(i)], topics[Activation(i)],
                    specificUrl[Activation(i)],
                    ResourceResult(
                        fetchDocumentation(fetched[i][Len(fetched[i])], outcome),
                        fetched[i][Len(fetched[i])]))]
    /\ pc' = [pc EXCEPT ![i] = "returned"]
    /\ UNCHANGED <<call, query, domain, topics, specifiedDomain, specificUrl, fetched>>

ConcNext == \E i \in Calls : ConcStart(i) \/ ConcSettle(i)

ConcSpec == ConcInit /\ [][ConcNext]_vars

(***************************************************************************)
(* Vocabulary of the properties.                                           *)
(***************************************************************************)
Returned(fn) == pc = "returned" /\ call = fn

DomainIndexes == 1..Len(domainKeywords)

\* the distinct keywords of the i-th domain contained in a lowercased query
ContainedKeywords(lower, i) ==
    { kw \in { domainKeywords[i].keywords[k] : k \in 1..Len(domainKeywords[i].keywords) } :
        Includes(lower, kw) }

\* per domain, the number of its distinct keywords contained in the query
KeywordScores(q) ==
    LET lower == toLowerCase(q) IN
    << Cardinality(ContainedKeywords(lower, 1)),
       Cardinality(ContainedKeywords(lower, 2)),
       Cardinality(ContainedKeywords(lower, 3)) >>

\* the domains that share the highest of the given scores
TopScorers(sc) == { i \in DomainIndexes : \A j \in DomainIndexes : sc[i] >= sc[j] }

\* the declaration indexes of the domain's patterns that match the query
MatchingPatterns(q, d) ==
    LET lower == toLowerCase(q) IN
    { i \in 1..Len(topicPatterns(d)) : Test(topicPatterns(d)[i].pattern, lower) }

\* the k-th smallest element of a set of numbers
Nth(S, k) == CHOOSE i \in S : Cardinality({ m \in S : m <= i }) = k

\* the terms extractTopics derives from the quoted matches of the query, in
\* order of appearance (what a term retains of its match is the subject of C7)
QuotedTerms(q) ==
    LET matches == MatchQuoted(q, 1) IN
    [ i \in 1..Len(matches) |-> CleanTerm(matches[i]) ]

\* the indexes of the terms longer than 2 characters
Qualifying(terms) == { i \in 1..Len(terms) : Len(terms[i]) > 2 }

\* the part of a returned topic list that follows the pattern labels
QuotedPart(q, d, ts) ==
    SubSeq(ts, Cardinality(MatchingPatterns(q, d)) + 1, Len(ts))

\* the text of a quoted match between its two delimiters
InnerText(m) == SubSeq(m, 2, Len(m) - 1)

(***************************************************************************)
(* Properties of determineDomain.                                          *)
(***************************************************************************)
\* C1: ties are broken first-wins: when two or more domains share the highest
\* positive keyword score, determineDomain returns the one declared earliest
\* (react-docs, node-docs, python-docs); the query "What's the difference
\* between Node.js and Python?" returns node-docs.
C1_TieFirstWins ==
    Returned("determineDomain") =>
        LET sc    == KeywordScores(query)
            top   == TopScorers(sc)
            first == Nth(top, 1)
        IN  /\ (Cardinality(top) >= 2 /\ sc[first] > 0)
                 => /\ ret = domainKeywords[first].domain
                    /\ \A i \in top : i > first => ret # domainKeywords[i].domain
            /\ query = "What's the difference between Node.js and Python?"
                 => ret = "node-docs"

C1_Witness ==
    /\ Returned("determineDomain")
    /\ query = "What's the difference between Node.js and Python?"
    /\ KeywordScores(query) = <<0, 1, 1>>
    /\ ret = "node-docs"

\* C2: determineDomain returns "general" exactly when the lowercased query
\* contains none of the 18 configured keywords.
C2_GeneralIffNoKeyword ==
    Returned("determineDomain") =>
        (ret = "general" <=>
            \A i \in DomainIndexes : ContainedKeywords(toLowerCase(query), i) = {})

C2_Witness ==
    /\ Returned("determineDomain")
    /\ query = "Best practices for file handling"
    /\ KeywordScores(query) = <<0, 0, 0>>
    /\ ret = "general"

\* C3: the score of a domain is the number of its distinct keywords contained
\* in the lowercased query (a keyword occurring several times counts once),
\* and a returned non-general domain has a score no lower than any other's.
C3_ScoreIsContainmentCount ==
    Returned("determineDomain") =>
        LET scores == Scores(query)
            sc     == KeywordScores(query)
        IN  /\ \A i \in DomainIndexes :
                  /\ scores[i].domain = domainKeywords[i].domain
                  /\ scores[i].score = sc[i]
            /\ ret # "general" =>
                  \E i \in DomainIndexes :
                      /\ ret = domainKeywords[i].domain
                      /\ \A j \in DomainIndexes : scores[i].score >= scores[j].score

C3_Witness ==
    /\ Returned("determineDomain")
    /\ query = "nodenode"
    /\ Scores(query)[2].score = 1
    /\ ret = "node-docs"

\* C4: determineDomain is total: for every query, the empty one included, the
\* call returns exactly one of react-docs, node-docs, python-docs, general
\* (the call has no failing path: DetermineDomainCall is defined on every query).
C4_Total ==
    Returned("determineDomain") =>
        Cardinality({ d \in ConfiguredDomains \cup {"general"} : d = ret }) = 1

C4_Witness ==
    /\ Returned("determineDomain")
    /\ query = ""
    /\ ret = "general"

(***************************************************************************)
(* Properties of extractTopics.                                            *)
(***************************************************************************)
\* C5: the returned list is the labels of the domain's matching patterns in
\* declaration order, each once, followed by the qualifying quoted terms in
\* order of appearance; a quoted term equal to a label or to another quoted
\* term is kept.
C5_LabelsThenQuotedTerms ==
    Returned("extractTopics") =>
        LET M     == MatchingPatterns(query, domain)
            terms == QuotedTerms(query)
            Q     == Qualifying(terms)
        IN  /\ Len(ret) = Cardinality(M) + Cardinality(Q)
            /\ \A k \in 1..Cardinality(M) :
                  ret[k] = topicPatterns(domain)[Nth(M, k)].topic
            /\ \A k, l \in 1..Cardinality(M) : k # l => ret[k] # ret[l]
            /\ \A k \in 1..Cardinality(Q) :
                  ret[Cardinality(M) + k] = terms[Nth(Q, k)]

C5_Witness ==
    /\ Returned("extractTopics")
    /\ domain = "node-docs"
    /\ query = "module'path'"
    /\ ret = <<"path", "modules", "path">>

\* C6: a quoted match contributes a term exactly when the term left of it has
\* more than 2 characters (as many terms are appended as matches qualify, each
\* qualifying term is appended in its place, and no appended term is shorter):
\* 'ab' contributes nothing, 'abc' contributes abc and "xyz" contributes xyz.
C6_QuotedTermLongerThanTwo ==
    Returned("extractTopics") =>
        LET part  == QuotedPart(query, domain, ret)
            terms == QuotedTerms(query)
            Q     == Qualifying(terms)
        IN
        /\ Len(part) = Cardinality(Q)
        /\ \A k \in 1..Len(part) : Len(part[k]) > 2
        /\ \A i \in Q : part[Cardinality({ m \in Q : m <= i })] = terms[i]
        /\ query = "'ab'" => part = <<>>
        /\ query = "'abc'" => part = <<"abc">>
        /\ query = "\"xyz\"" => part = <<"xyz">>

C6_Witness ==
    /\ Returned("extractTopics")
    /\ domain = "general"
    /\ query = "'ab''abc'"
    /\ ret = <<"abc">>

\* C7: the term appended for a quoted match is the text between the two
\* delimiters, unchanged (letter case and quote characters of the other kind
\* included), and the length > 2 test is applied to that text.
C7_TermIsInnerText ==
    Returned("extractTopics") =>
        LET part == QuotedPart(query, domain, ret)
            matches == MatchQuoted(query, 1)
            kept == { i \in 1..Len(matches) : Len(InnerText(matches[i])) > 2 }
        IN  /\ Len(part) = Cardinality(kept)
            /\ \A k \in 1..Cardinality(kept) :
                  k <= Len(part) => part[k] = InnerText(matches[Nth(kept, k)])

\* C8: for a domain without configured patterns ("general" or an unknown
\* string) extractTopics returns exactly the qualifying quoted terms, and the
\* empty list when there is none.
C8_NoPatternsOnlyQuotedTerms ==
    (Returned("extractTopics") /\ domain \notin ConfiguredDomains) =>
        LET terms == QuotedTerms(query)
            Q     == Qualifying(terms)
        IN  /\ Len(ret) = Cardinality(Q)
            /\ \A k \in 1..Len(ret) : ret[k] = terms[Nth(Q, k)]
            /\ Q = {} => ret = <<>>

C8_Witness ==
    /\ Returned("extractTopics")
    /\ domain = "rust-docs"
    /\ query = "state'abc'"
    /\ MatchingPatterns(query, "react-docs") # {}
    /\ ret = <<"abc">>

(***************************************************************************)
(* Properties of constructSpecificUrl.                                     *)
(***************************************************************************)
\* C9: constructSpecificUrl returns null for the empty topic list, whatever
\* the domain.
C9_EmptyTopicsNull ==
    (Returned("constructSpecificUrl") /\ topics = <<>>) => ret = null

C9_Witness ==
    /\ Returned("constructSpecificUrl")
    /\ domain = "react-docs"
    /\ topics = <<>>
    /\ ret = null

\* C10: only the first topic is consulted: the result for a non-empty list T
\* is the result for the one-element list of T[0], and it is null when T[0]
\* has no rule even if a later topic has one.
C10_OnlyFirstTopic ==
    (Returned("constructSpecificUrl") /\ topics # <<>>) =>
        /\ ret = constructSpecificUrl(domain, <<topics[1]>>)
        /\ topics[1] \in {"abc", "Path"} => ret = null

C10_Witness ==
    /\ Returned("constructSpecificUrl")
    /\ domain = "node-docs"
    /\ topics = <<"abc", "fs">>
    /\ constructSpecificUrl(domain, <<"fs">>) = "https://nodejs.org/api/fs.html"
    /\ ret = null

\* C11: for a domain other than react-docs, node-docs and python-docs
\* ("general" included) constructSpecificUrl returns null for every topic
\* list, also when the first topic has a URL rule in a configured domain.
C11_OtherDomainNull ==
    (Returned("constructSpecificUrl") /\ domain \notin ConfiguredDomains) => ret = null

C11_Witness ==
    /\ Returned("constructSpecificUrl")
    /\ domain = "general"
    /\ topics = <<"useState">>
    /\ constructSpecificUrl("react-docs", topics) # null
    /\ ret = null

(***************************************************************************)
(* Properties of the pipeline and of the tools.                            *)
(***************************************************************************)
UseStateQuery == "How do I use useState hook in React?"

UseStateUrl == "https://react.dev/reference/react/useState"

InSeq(ts, t) == \E k \in 1..Len(ts) : ts[k] = t

\* C12, as stated: for the query "How do I use useState hook in React?" the
\* domain is react-docs, the topics contain useState and do not contain
\* state, and the URL is https://react.dev/reference/react/useState.
C12_StateNotExtracted ==
    (Returned("testQuery") /\ query = UseStateQuery) =>
        /\ domain = "react-docs"
        /\ InSeq(topics, "useState")
        /\ ~InSeq(topics, "state")
        /\ ret = UseStateUrl

\* C12, amended: for that query the domain is react-docs, the topics contain
\* useState and also state (in "useState hook" the text "state" is followed
\* by a space, so state\b finds its word boundary), and the URL is
\* https://react.dev/reference/react/useState.
C12_StateExtractedToo ==
    (Returned("testQuery") /\ query = UseStateQuery) =>
        /\ domain = "react-docs"
        /\ InSeq(topics, "useState")
        /\ InSeq(topics, "state")
        /\ ret = UseStateUrl

C12_Witness ==
    /\ Returned("testQuery")
    /\ query = UseStateQuery
    /\ topics = <<"useState", "state">>
    /\ ret = UseStateUrl

\* the fetch of a returned fetch-documentation call succeeded
FetchSucceeded ==
    /\ Len(fetched) = 1
    /\ ret.content = PageText(fetched[1])

\* C13: fetch-documentation called with only the query "How do I use useState
\* hook in React?" and a successful fetch returns domain react-docs, topics
\* exactly useState, state in that order, specificUrl
\* https://react.dev/reference/react/useState and the same URL as source.
C13_ReadmeExample ==
    (/\ Returned("fetch-documentation")
     /\ specifiedDomain = undefined
     /\ query = UseStateQuery
     /\ FetchSucceeded)
        => /\ ret.domain = "react-docs"
           /\ ret.topics = <<"useState", "state">>
           /\ ret.specificUrl = UseStateUrl
           /\ ret.source = UseStateUrl

C13_Witness ==
    /\ Returned("fetch-documentation")
    /\ specifiedDomain = undefined
    /\ query = UseStateQuery
    /\ FetchSucceeded
    /\ ret.source = UseStateUrl

\* C14: the determine-domain tool returns the domain determineDomain gives
\* the query, with confidence "high" exactly when that domain is not
\* "general" and "low" otherwise.
C14_ConfidenceHighIffNotGeneral ==
    Returned("determine-domain") =>
        /\ ret.domain = determineDomain(query)
        /\ ret.confidence \in {"high", "low"}
        /\ ret.confidence = "high" <=> ret.domain # "general"

C14_Witness ==
    /\ Returned("determine-domain")
    /\ query = "Best practices for file handling"
    /\ ret = [domain |-> "general", confidence |-> "low"]

\* C15: in every response of fetch-documentation the topics field is the
\* extracted topic list when that list is not empty and ["general"] when it
\* is; the field is never the empty list.
C15_TopicsNeverEmpty ==
    Returned("fetch-documentation") =>
        /\ ret.topics = (IF topics # <<>> THEN topics ELSE <<"general">>)
        /\ ret.topics # <<>>

\* C16: a fetch-documentation call whose domain is react-docs, node-docs or
\* python-docs issues exactly one fetch, to specificUrl when it is not null
\* and to the domain's base URL otherwise, and the source of the response is
\* the URL fetched.
C16_OneFetchOfTarget ==
    (call = "fetch-documentation" /\ pc # "called" /\ domain \in ConfiguredDomains) =>
        /\ Len(fetched) = 1
        /\ specificUrl # null => fetched[1] = specificUrl
        /\ (specificUrl = null /\ domain = "react-docs")
              => fetched[1] = "https://react.dev/reference/react"
        /\ (specificUrl = null /\ domain = "node-docs")
              => fetched[1] = "https://nodejs.org/en/docs"
        /\ (specificUrl = null /\ domain = "python-docs")
              => fetched[1] = "https://docs.python.org/3/"
        /\ pc = "returned" => ret.source = fetched[1]

C16_Witness ==
    /\ Returned("fetch-documentation")
    /\ domain = "node-docs"
    /\ specificUrl = null
    /\ fetched = <<"https://nodejs.org/en/docs">>
    /\ ret.source = "https://nodejs.org/en/docs"

\* C17: for an explicit domain that is not a registered resource the handler
\* issues no fetch and returns the supplied domain, an error field naming
\* that domain and the content "Error fetching documentation for this
\* domain.", for every such domain and every query.
C17_UnknownDomainReported ==
    (/\ Returned("fetch-documentation")
     /\ ~Falsy(specifiedDomain)
     /\ specifiedDomain \notin ResourceNames)
        => /\ fetched = <<>>
           /\ ret.domain = specifiedDomain
           /\ "error" \in DOMAIN ret
           /\ Includes(ret.error, specifiedDomain)
           /\ ret.content = "Error fetching documentation for this domain."

\* a documentation URL
IsUrl(u) == LiteralAt(u, 1, "https://")

\* C18: the composed pipeline has no error outcome: for every query and every
\* domain (configured, general or unknown) extractTopics returns a list of
\* topics, empty or not, and constructSpecificUrl applied to that list
\* returns a URL or null.
C18_PipelineNoError ==
    /\ Returned("extractTopics") =>
          /\ \A k \in 1..Len(ret) : Len(ret[k]) > 0
          /\ LET url == constructSpecificUrl(domain, ret) IN url = null \/ IsUrl(url)
    /\ (call \in {"testQuery", "fetch-documentation"} /\ pc # "called") =>
          /\ \A k \in 1..Len(topics) : Len(topics[k]) > 0
          /\ LET url == IF call = "testQuery" THEN ret ELSE specificUrl
             IN  url = null \/ IsUrl(url)

C18_Witness ==
    /\ Returned("fetch-documentation")
    /\ specifiedDomain = "rust-docs"
    /\ query = "'abc'"
    /\ topics = <<"abc">>
    /\ specificUrl = null

\* String.prototype.toUpperCase on one character (ASCII letters)
UpperChar(c) ==
    IF \E i \in 1..Len(LowerCaseLetters) : CharAt(LowerCaseLetters, i) = c
    THEN CharAt(UpperCaseLetters,
                CHOOSE i \in 1..Len(LowerCaseLetters) : CharAt(LowerCaseLetters, i) = c)
    ELSE c

RECURSIVE toUpperCase(_)
toUpperCase(s) ==
    IF s = "" THEN "" ELSE UpperChar(CharAt(s, 1)) \o toUpperCase(Tail(s))

\* every letter of s in the other case
RECURSIVE SwapCase(_)
SwapCase(s) ==
    IF s = "" THEN ""
    ELSE (IF UpperChar(CharAt(s, 1)) # CharAt(s, 1)
          THEN UpperChar(CharAt(s, 1)) ELSE LowerChar(CharAt(s, 1)))
         \o SwapCase(Tail(s))

\* C19: classification is case-insensitive: a query and the queries that
\* differ from it only in the case of their letters (all upper, all lower,
\* every letter swapped) are given the same domain.
C19_CaseInsensitive ==
    Returned("determineDomain") =>
        \A other \in {toUpperCase(query), toLowerCase(query), SwapCase(query)} :
            determineDomain(other) = ret

C19_Witness ==
    /\ Returned("determineDomain")
    /\ query = "React"
    /\ SwapCase(query) = "rEACT"
    /\ determineDomain("rEACT") = "react-docs"
    /\ ret = "react-docs"

(***************************************************************************)
(* Properties of the URL rules, the tool handlers and the quoted terms     *)
(* (continued).                                                            *)
(***************************************************************************)
ReactTemplate == "https://react.dev/reference/react/"
PythonTemplate == "https://docs.python.org/3/library/stdtypes.html#"

HookLabels ==
    {"useState", "useEffect", "useContext", "useReducer", "useCallback",
     "useMemo", "useRef"}
StdTypeLabels == {"list", "dict", "tuple", "set", "string"}

\* C21: the two templated URL rules interpolate the main topic label: in
\* react-docs a hook label gives https://react.dev/reference/react/ followed by
\* the label; in python-docs a standard type label gives
\* https://docs.python.org/3/library/stdtypes.html# followed by the label and
\* the letter s; every other rule returns a literal URL that is not an
\* instance of either template.
C21_TemplatedRules ==
    Returned("constructSpecificUrl") /\ Len(topics) > 0 =>
        LET mainTopic == topics[1]
            templated == \/ domain = "react-docs" /\ mainTopic \in HookLabels
                         \/ domain = "python-docs" /\ mainTopic \in StdTypeLabels
        IN  /\ domain = "react-docs" /\ mainTopic \in HookLabels
                => ret = ReactTemplate \o mainTopic
            /\ domain = "python-docs" /\ mainTopic \in StdTypeLabels
                => ret = PythonTemplate \o mainTopic \o "s"
            /\ ~templated /\ ret # null
                => /\ ~LiteralAt(ret, 1, ReactTemplate)
                   /\ ~LiteralAt(ret, 1, PythonTemplate)

C21_Witness ==
    /\ Returned("constructSpecificUrl")
    /\ domain = "python-docs"
    /\ topics = <<"list", "useRef">>
    /\ ret = "https://docs.python.org/3/library/stdtypes.html#lists"

\* the group of the test script the i-th test query is listed under
ListedGroup(i) ==
    IF i \in 1..4 THEN "react-docs"
    ELSE IF i \in 5..8 THEN "node-docs"
    ELSE IF i \in 9..12 THEN "python-docs"
    ELSE "mixed"

\* C23: every query of the test script is classified into the group it is
\* listed under (queries 1-4 react-docs, 5-8 node-docs, 9-12 python-docs), and
\* for all 15 test queries the pipeline determineDomain, extractTopics,
\* constructSpecificUrl, each step fed the previous step's output, completes:
\* with one of the four domains, a list of pattern labels of that domain (the
\* test queries hold no quoted term), and a URL or null.
C23_TestQueriesClassified ==
    Returned("testQuery") =>
        \A i \in 1..Len(testQueries) :
            query = testQueries[i] =>
                /\ ListedGroup(i) # "mixed" => domain = ListedGroup(i)
                /\ domain \in ConfiguredDomains \cup {"general"}
                /\ \A k \in 1..Len(topics) :
                       \E j \in 1..Len(topicPatterns(domain)) :
                           topicPatterns(domain)[j].topic = topics[k]
                /\ ret = null \/ IsUrl(ret)

C23_Witness ==
    /\ Returned("testQuery")
    /\ query = testQueries[8]
    /\ domain = "node-docs"
    /\ topics = <<"express">>
    /\ ret = "https://expressjs.com/en/api.html"

\* C24: the optional domain argument of fetch-documentation overrides the
\* classification: a non-empty supplied domain is the response's domain, and
\* topics and specificUrl are computed for it, whatever determineDomain(query)
\* returns; when the argument is omitted or is the empty string, the domain
\* used is determineDomain(query).
C24_DomainOverride ==
    Returned("fetch-documentation") =>
        LET used == IF specifiedDomain \in {undefined, ""}
                    THEN determineDomain(query)
                    ELSE specifiedDomain
            extracted == extractTopics(query, used)
        IN  /\ ret.domain = used
            /\ topics = extracted
            /\ \/ ret.topics = extracted
               \/ extracted = <<>> /\ ret.topics = <<"general">>
            /\ specificUrl = constructSpecificUrl(used, extracted)
            /\ "specificUrl" \in DOMAIN ret => ret.specificUrl = specificUrl

C24_Witness ==
    /\ Returned("fetch-documentation")
    /\ query = "How to read files in Node.js?"
    /\ determineDomain(query) = "node-docs"
    /\ specifiedDomain = "python-docs"
    /\ ret.domain = "python-docs"
    /\ ret.topics = <<"file">>
    /\ ret.specificUrl =
           "https://docs.python.org/3/tutorial/inputoutput.html#reading-and-writing-files"

\* the labels the URL rules of a domain compare the main topic with
RuleLabels(d) ==
    CASE d = "react-docs" ->
           HookLabels \cup {"components", "props", "state", "jsx", "events", "rendering"}
      [] d = "node-docs" ->
           {"fs", "http", "path", "buffer", "stream", "events", "modules",
            "process", "npm", "express"}
      [] d = "python-docs" ->
           StdTypeLabels \cup {"file", "class", "function", "module", "pandas",
                               "numpy", "django", "flask"}
      [] OTHER -> {}

\* the smallest element of a non-empty set of numbers
Least(S) == CHOOSE i \in S : \A m \in S : i <= m

\* url, resolved for query q in the configured domain d, is non-null exactly
\* when a pattern matches or, no pattern matching, the first qualifying quoted
\* term is a rule label; with a match it is the URL of the first matching
\* pattern in declaration order
UrlIffPatternOrRuleLabel(q, d, url) ==
    LET matching   == MatchingPatterns(q, d)
        terms      == QuotedTerms(q)
        qualifying == Qualifying(terms)
    IN  /\ url # null <=>
               \/ matching # {}
               \/ /\ matching = {}
                  /\ qualifying # {}
                  /\ terms[Least(qualifying)] \in RuleLabels(d)
        /\ matching # {} =>
               url = UrlFor(d, topicPatterns(d)[Least(matching)].topic)

\* C25: for each of react-docs, node-docs and python-docs and every query,
\* constructSpecificUrl(domain, extractTopics(query, domain)) is non-null if and
\* only if a topic pattern of the domain matches the query, or none matches and
\* the first qualifying quoted term equals a rule label of the domain; every
\* pattern label of a domain has a URL rule; and the URL is the one of the
\* first matching pattern in declaration order.
C25_UrlIffPatternOrRuleLabel ==
    /\ \A d \in ConfiguredDomains :
           \A j \in 1..Len(topicPatterns(d)) :
               topicPatterns(d)[j].topic \in RuleLabels(d)
    /\ Returned("extractTopics") /\ domain \in ConfiguredDomains
           => UrlIffPatternOrRuleLabel(query, domain, constructSpecificUrl(domain, ret))
    /\ call = "fetch-documentation" /\ pc # "called" /\ domain \in ConfiguredDomains
           => UrlIffPatternOrRuleLabel(query, domain, specificUrl)

C25_Witness ==
    /\ Returned("fetch-documentation")
    /\ query = "'modules'"
    /\ domain = "node-docs"
    /\ MatchingPatterns(query, domain) = {}
    /\ ret.topics = <<"modules">>
    /\ ret.specificUrl = "https://nodejs.org/api/modules.html"

\* C26: whenever the domain resolved by fetch-documentation is "general", by
\* classification or by explicit argument, no fetch is issued whatever the
\* query contains: specificUrl is null and the response has the content
\* "Please provide a specific URL for general documentation queries.", the
\* source "none" and no error field.
C26_GeneralNeverFetches ==
    call = "fetch-documentation" /\ pc # "called" /\ domain = "general" =>
        /\ fetched = <<>>
        /\ pc = "returned"
        /\ specificUrl = null
        /\ ret.domain = "general"
        /\ ret.specificUrl = null
        /\ ret.content = "Please provide a specific URL for general documentation queries."
        /\ ret.source = "none"
        /\ "error" \notin DOMAIN ret

C26_Witness ==
    /\ Returned("fetch-documentation")
    /\ query = "'path'"
    /\ specifiedDomain = "general"
    /\ ret.domain = "general"
    /\ ret.topics = <<"path">>
    /\ ret.source = "none"
    /\ fetched = <<>>

\* the last fetch of the call failed: it was rejected or answered without ok
FetchFailed ==
    /\ Returned("fetch-documentation")
    /\ settled # <<>>
    /\ settled[Len(settled)] \in {"not-ok", "rejected"}

\* C27: a failed fetch (a network exception or a non-OK status) never makes
\* fetch-documentation take its error branch: the call returns the
\* success-shaped response with the content "Unable to fetch documentation
\* content.", the attempted URL as source and no error field, and the fetch is
\* not retried.
C27_FailedFetchSuccessShaped ==
    FetchFailed =>
        /\ DOMAIN ret = {"domain", "topics", "specificUrl", "content", "source"}
        /\ ret.content = "Unable to fetch documentation content."
        /\ Len(fetched) = 1
        /\ Len(settled) = 1
        /\ ret.source = fetched[1]

C27_Witness ==
    /\ FetchFailed
    /\ query = "How to work with lists in Python"
    /\ specifiedDomain = undefined
    /\ settled = <<"rejected">>
    /\ fetched = <<"https://docs.python.org/3/library/stdtypes.html#lists">>
    /\ ret.source = "https://docs.python.org/3/library/stdtypes.html#lists"
    /\ ret.content = "Unable to fetch documentation content."

\* the positions of the apostrophes of a query
Apostrophes(q) == { i \in 1..Len(q) : CharAt(q, i) = "'" }

NoDoubleQuotes(q) == \A i \in 1..Len(q) : CharAt(q, i) # "\""

\* the terms longer than 2 characters among the quoted terms of a text, in order
QualifyingTerms(text) == SelectSeq(QuotedTerms(text), LAMBDA t : Len(t) > 2)

\* C28 as stated: for any query without double quotes that contains two
\* apostrophes with more than 2 characters between them, the text between the
\* first and the second apostrophe of the query is appended as a topic.
C28_AnyTwoApostrophes ==
    /\ Returned("extractTopics")
    /\ NoDoubleQuotes(query)
    /\ \E a, b \in Apostrophes(query) : b - a - 1 > 2
    => LET first   == Least(Apostrophes(query))
           second  == Least(Apostrophes(query) \ {first})
           between == SubSeq(query, first + 1, second - 1)
       IN  InSeq(QuotedPart(query, domain, ret), between)

\* C28: quoted-term extraction treats apostrophes as quote delimiters:
\* for a query without double quotes whose first and second apostrophe have
\* more than 2 characters between them, the text between them is appended as
\* a topic (after the pattern labels), and scanning resumes after the second
\* apostrophe: the topics that follow are the qualifying quoted terms of the
\* rest of the query, so matches never overlap.
C28_ApostrophesDelimit ==
    /\ Returned("extractTopics")
    /\ NoDoubleQuotes(query)
    /\ Cardinality(Apostrophes(query)) >= 2
    => LET first   == Least(Apostrophes(query))
           second  == Least(Apostrophes(query) \ {first})
           between == SubSeq(query, first + 1, second - 1)
           rest    == SubSeq(query, second + 1, Len(query))
       IN  Len(between) > 2 =>
               QuotedPart(query, domain, ret) = <<between>> \o QualifyingTerms(rest)

C28_Witness ==
    /\ Returned("extractTopics")
    /\ query = "'abc''path'"
    /\ domain = "general"
    /\ ret = <<"abc", "path">>

(***************************************************************************)
(* Property of concurrent calls (specification ConcSpec).                  *)
(***************************************************************************)
\* what a fetch-documentation call with these arguments computes when it is
\* the only call
Alone(q, specified) ==
    LET d   == HandlerDomain(specified, q)
        ts  == extractTopics(q, d)
        url == constructSpecificUrl(d, ts)
    IN  [domain |-> d, topics |-> ts, specificUrl |-> url,
         fetch |-> HandlerStep(d, ts, url).fetch]

\* C22: concurrent fetch-documentation calls are independent: in every
\* interleaving of calls suspended at their fetch, the URL each call fetches and
\* the domain, topics and specificUrl of its response are those the call
\* produces when it runs alone on the same arguments.
C22_CallsIndependent ==
    \A i \in Calls :
        pc[i] # "called" =>
            LET alone == Alone(query[i], specifiedDomain[i]) IN
            /\ fetched[i] = alone.fetch
            /\ pc[i] = "returned" =>
                   /\ ret[i].domain = alone.domain
                   /\ ret[i].topics = IF "error" \in DOMAIN ret[i]
                                      THEN alone.topics
                                      ELSE ResponseTopics(alone.topics)
                   /\ "specificUrl" \in DOMAIN ret[i]
                          => ret[i].specificUrl = alone.specificUrl
                   /\ "source" \in DOMAIN ret[i]
                          => <<ret[i].source>> = alone.fetch

C22_Witness ==
    /\ pc = <<"returned", "fetching">>
    /\ query = <<"state", "module">>
    /\ specifiedDomain = <<undefined, "python-docs">>
    /\ ret[1].domain = "react-docs"
    /\ ret[1].topics = <<"state">>
    /\ ret[1].specificUrl = "https://react.dev/learn/state-a-components-memory"
    /\ fetched[2] = <<"https://docs.python.org/3/tutorial/modules.html">>

====
